---- MODULE Spec2Model ----
(***************************************************************************)
(* The CNE (Conventional Neural Evolution) optimizer of mlpack, as its     *)
(* tutorial (cne.txt) documents it and as its design lays out the          *)
(* per-generation protocol: evaluate, rank, select, regenerate, check.     *)
(*                                                                         *)
(* Real numbers are modelled on an integer grid: a parameter is an integer *)
(* number of grid steps, a fitness an integer, and a probability the       *)
(* numerator of a fraction over ProbDen.                                   *)
(***************************************************************************)
EXTENDS Integers, Sequences, FiniteSets

----------------------------------------------------------------------------
(* Bounds of the model. *)

MaxPop == 4        \* largest populationSize drawn
MaxGen == 3        \* largest maxGenerations drawn
ProbDen == 10      \* probabilities are k / ProbDen

----------------------------------------------------------------------------
(* Program constants. *)

MinPopulationSize == 4        \* populationSize must be at least 4
MinParents == 2               \* selection never picks fewer than 2 parents
HistoryWindow == 1            \* best fitness is compared between two consecutive generations
ConstantValue == 5            \* the constant objective f(x) = 5
\* The default objectiveChange 1e-5 lies strictly between no change and one
\* step of the fitness grid: a change is greater than it exactly when the
\* change is not 0, which on the grid is the threshold 0.
DefaultObjectiveChange == 0

\* An objectiveChange above every possible fitness swing: a weight starts
\* within one grid step of 0 and moves at most one step per generation.
Huge == 2 * ((MaxGen + 1) * (MaxGen + 1) + ConstantValue) + 1

----------------------------------------------------------------------------
(* Input domains. *)

PopulationSizes == (MinPopulationSize - 1)..MaxPop
Generations == 0..MaxGen
MutationProbs == {-1, 0, 1, ProbDen + 1}
MutationSizes == {-1, 1}
SelectPercents == {-1, 0, 6, ProbDen, ProbDen + 1}
Tolerances == {-1, 0}
ObjectiveChanges == {-1, DefaultObjectiveChange, 1, Huge}
Objectives == {"square", "linear", "constant"}

Configs ==
  [populationSize : PopulationSizes, maxGenerations : Generations,
   mutationProb : MutationProbs, mutationSize : MutationSizes,
   selectPercent : SelectPercents, tolerance : Tolerances,
   objectiveChange : ObjectiveChanges]

VARIABLES
  pc,            \* "new", "error", "constructed", "run", "done"
  cfg,           \* the optimizer configuration, fixed at construction
  objective,     \* the objective function handed to Optimize
  population,    \* sequence of candidates; a candidate is a sequence of parameters
  gen,           \* generation index: number of generations completed
  bestParams,    \* parameters of the best candidate of the last generation
  bestFitness,   \* best fitness of the last generation
  history,       \* best fitness of the last HistoryWindow + 1 generations, oldest first
  reason,        \* which termination condition ended the run
  lowestSeen     \* lowest fitness over every candidate evaluated so far in the run

vars == <<pc, cfg, objective, population, gen, bestParams, bestFitness,
          history, reason, lowestSeen>>

----------------------------------------------------------------------------
(* Pure helpers. *)

Abs(x) == IF x < 0 THEN -x ELSE x

Max(a, b) == IF a >= b THEN a ELSE b

Min(a, b) == IF a <= b THEN a ELSE b

\* Smallest entry of a non-empty sequence of numbers.
MinOf(fit) ==
  CHOOSE m \in {fit[i] : i \in 1..Len(fit)} : \A i \in 1..Len(fit) : m <= fit[i]

\* ceil(num / ProbDen * n) for num >= 0
CeilFraction(num, n) == (num * n + ProbDen - 1) \div ProbDen

\* Evaluate(params) -> scalar, for the three objectives of the model.
\* "square" is f(x) = x[0]^2, "linear" f(x) = x[0] and "constant" f(x) = 5,
\* each over a 1-dimensional parameter.
Evaluate(obj, params) ==
  CASE obj = "square"   -> params[1] * params[1]
    [] obj = "linear"   -> params[1]
    [] obj = "constant" -> ConstantValue

----------------------------------------------------------------------------
(* Construction. *)

ValidPopulationSizeStrict(n) == n > MinPopulationSize

ValidPopulationSize(n) == n >= MinPopulationSize

ValidProbability(p) == p >= 0 /\ p <= ProbDen

ValidMutationSize(m) == m >= 0

ValidConfig(c) ==
  /\ ValidPopulationSize(c.populationSize)
  /\ ValidProbability(c.mutationProb)
  /\ ValidProbability(c.selectPercent)
  /\ ValidMutationSize(c.mutationSize)

Construct ==
  /\ pc = "new"
  /\ \E c \in Configs :
       /\ cfg' = c
       /\ pc' = IF ValidConfig(c) THEN "constructed" ELSE "error"
  /\ UNCHANGED <<objective, population, gen, bestParams, bestFitness,
                 history, reason, lowestSeen>>

----------------------------------------------------------------------------
(* Optimize: start with a random population. *)

\* The random initial weights, on the grid.
InitialWeights == -1..0

Candidates == {<<x>> : x \in InitialWeights}

\* maxGenerations: the maximum number of generations allowed.
MaxGenerationsReachedLate(c, g) == g > c.maxGenerations

MaxGenerationsReached(c, g) == g >= c.maxGenerations

\* With maxGenerations = 0 no generation is allowed: Optimize returns at once.
\* No candidate has been ranked then; the result is one of the initial
\* candidates, whichever, and its objective value.
OptimizeStart ==
  /\ pc = "constructed"
  /\ \E obj \in Objectives :
       \E pop \in [1..cfg.populationSize -> Candidates] :
         /\ objective' = obj
         /\ population' = pop
         /\ IF MaxGenerationsReached(cfg, 0)
            THEN \E i \in 1..Len(pop) :
                   /\ bestParams' = pop[i]
                   /\ bestFitness' = Evaluate(obj, pop[i])
                   /\ lowestSeen' = Evaluate(obj, pop[i])
                   /\ reason' = "maxGenerations"
                   /\ pc' = "done"
            ELSE /\ pc' = "run"
                 /\ UNCHANGED <<bestParams, bestFitness, lowestSeen, reason>>
  /\ gen' = 0
  /\ UNCHANGED <<cfg, history>>

----------------------------------------------------------------------------
(* One generation. *)

Fitness(obj, pop) == [i \in 1..Len(pop) |-> Evaluate(obj, pop[i])]

\* Rank of candidate i, ascending by fitness (minimization), ties kept in
\* current order.
RankPosReversed(fit, i) ==
  1 + Cardinality({j \in 1..Len(fit) :
                     fit[j] > fit[i] \/ (fit[j] = fit[i] /\ j > i)})

RankPosDescending(fit, i) ==
  1 + Cardinality({j \in 1..Len(fit) :
                     fit[j] > fit[i] \/ (fit[j] = fit[i] /\ j < i)})

RankPos(fit, i) ==
  1 + Cardinality({j \in 1..Len(fit) :
                     fit[j] < fit[i] \/ (fit[j] = fit[i] /\ j < i)})

Rank(obj, pop) ==
  CHOOSE ranked \in {[k \in 1..Len(pop) |-> pop[CHOOSE i \in 1..Len(pop) : RankPos(fit, i) = k]] :
                       fit \in {Fitness(obj, pop)}} : TRUE

\* The best candidate of a ranked population.
Best(ranked) == ranked[1]

NumParents(c) ==
  Max(MinParents, CeilFraction(c.selectPercent, c.populationSize))

\* The selected candidates: the best NumParents of the generation.
ParentsFloor(c, ranked) ==
  SubSeq(ranked, 1, Max(MinParents, (c.selectPercent * c.populationSize) \div ProbDen))

Parents(c, ranked) == SubSeq(ranked, 1, NumParents(c))

\* The slots left once the parents are kept: the rest is removed and regenerated.
NumChildrenUnclamped(c, parents) ==
  c.populationSize - CeilFraction(c.selectPercent, c.populationSize)

NumChildren(c, parents) == c.populationSize - Len(parents)

\* Noise a single parameter can receive on mutation: with probability
\* mutationProb a value between 0 and mutationSize, otherwise none.
Noise(c) ==
  IF c.mutationProb = 0 THEN {0}
  ELSE IF c.mutationProb = ProbDen THEN 0..c.mutationSize
  ELSE {0} \cup 0..c.mutationSize

\* The children that can be made from parent p: a copy with noise added
\* independently to each parameter.
Mutations(c, p) ==
  {[i \in 1..Len(p) |-> p[i] + d[i]] : d \in [1..Len(p) -> Noise(c)]}

\* Every child a regenerated slot can receive: a mutated copy of some parent.
Offspring(c, parents) ==
  UNION {Mutations(c, parents[i]) : i \in 1..Len(parents)}

\* tolerance: the final value of the objective function for termination;
\* negative: not taken into consideration.
ToleranceReachedStrict(c, best) == c.tolerance >= 0 /\ best < c.tolerance

ToleranceReachedUnguarded(c, best) == best <= c.tolerance

ToleranceReached(c, best) == c.tolerance >= 0 /\ best <= c.tolerance

\* objectiveChange: the change in best fitness between two consecutive
\* generations should be greater than objectiveChange, or the run ends;
\* negative: not taken into consideration.  hist holds the best fitness of
\* the last generations, the current one last.
ObjectiveChangeReachedNever(c, g, hist) == FALSE

ObjectiveChangeReachedLate(c, g, hist) ==
  /\ c.objectiveChange >= 0
  /\ g > HistoryWindow + 1
  /\ ~(Abs(hist[1] - hist[Len(hist)]) > c.objectiveChange)

ObjectiveChangeReached(c, g, hist) ==
  /\ c.objectiveChange >= 0
  /\ g > HistoryWindow
  /\ ~(Abs(hist[1] - hist[Len(hist)]) > c.objectiveChange)

\* The termination conditions, in the order they are checked.
Termination(c, g, hist, best) ==
  IF MaxGenerationsReached(c, g) THEN "maxGenerations"
  ELSE IF ToleranceReached(c, best) THEN "tolerance"
  ELSE IF ObjectiveChangeReached(c, g, hist) THEN "objectiveChange"
  ELSE "none"

PushHistory(hist, best) ==
  IF Len(hist) <= HistoryWindow THEN Append(hist, best)
  ELSE Append(Tail(hist), best)

\* Evaluate, rank, select, regenerate, update the record, check termination.
\* (\E x \in {e} names the value of e.)
Generation ==
  /\ pc = "run"
  /\ ~MaxGenerationsReached(cfg, gen)
  /\ \E fit \in {Fitness(objective, population)} :
     \E ranked \in {Rank(objective, population)} :
     \E parents \in {Parents(cfg, ranked)} :
     \E best \in {Evaluate(objective, Best(ranked))} :
     \E hist \in {PushHistory(history, best)} :
     \E stop \in {Termination(cfg, gen + 1, hist, best)} :
       /\ gen' = gen + 1
       /\ bestParams' = Best(ranked)
       /\ bestFitness' = best
       /\ lowestSeen' = IF gen = 0 THEN MinOf(fit) ELSE Min(lowestSeen, MinOf(fit))
       /\ history' = hist
       /\ reason' = stop
       /\ pc' = IF stop = "none" THEN "run" ELSE "done"
       /\ \E children \in [1..NumChildren(cfg, parents) -> Offspring(cfg, parents)] :
            population' = parents \o children
  /\ UNCHANGED <<cfg, objective>>

----------------------------------------------------------------------------

Init ==
  /\ pc = "new"
  /\ cfg = [populationSize |-> 0, maxGenerations |-> 0, mutationProb |-> 0,
            mutationSize |-> 0, selectPercent |-> 0, tolerance |-> 0,
            objectiveChange |-> 0]
  /\ objective = "none"
  /\ population = <<>>
  /\ gen = 0
  /\ bestParams = <<>>
  /\ bestFitness = 0
  /\ history = <<>>
  /\ reason = "none"
  /\ lowestSeen = 0

Next == Construct \/ OptimizeStart \/ Generation

Spec == Init /\ [][Next]_vars

\* Optimize is a sequential loop: once called it keeps running generations.
FairSpec == Spec /\ WF_vars(Generation)

----------------------------------------------------------------------------
(* Properties. *)

Running == pc = "run"
Done == pc = "done"
InOptimize == pc \in {"run", "done"}

\* C1: from one generation to the next the recorded best fitness never
\* increases.
C1_BestFitnessNonIncreasing ==
  [][(pc = "run" /\ gen >= 1 /\ gen' = gen + 1) => bestFitness' <= bestFitness]_vars

\* A second or later generation ended with a strictly better best fitness.
C1_Witness ==
  /\ InOptimize /\ gen >= 2
  /\ Len(history) = HistoryWindow + 1
  /\ history[Len(history)] < history[Len(history) - 1]

\* C2: a run never goes beyond maxGenerations generations, it always ends,
\* and a run ended by the generation count returns the best candidate of
\* its last generation as a normal result.
C2_TerminatesWithinMaxGenerations ==
  /\ [](Running => gen < cfg.maxGenerations)
  /\ [](Done => /\ gen <= cfg.maxGenerations
                /\ reason \in {"maxGenerations", "tolerance", "objectiveChange"}
                /\ (reason = "maxGenerations" =>
                      /\ gen = cfg.maxGenerations
                      /\ Len(bestParams) = 1
                      /\ bestFitness = Evaluate(objective, bestParams)))
  /\ [](Running => <>Done)

\* A run that no convergence check stopped, ended by the generation count.
C2_Witness ==
  /\ Done /\ reason = "maxGenerations"
  /\ gen = MaxGen
  /\ ~ToleranceReached(cfg, bestFitness)

\* C3: the population always holds exactly populationSize candidates.
C3_PopulationSizeFixed ==
  InOptimize => /\ Len(population) = cfg.populationSize
                /\ Len(population) >= MinPopulationSize

\* Two generations of selection and regeneration have run, with slots regenerated.
C3_Witness ==
  /\ InOptimize /\ gen >= 2
  /\ NumParents(cfg) < cfg.populationSize
  /\ \E k \in 1..Len(population) : population[k] # population[1]

\* C4: the returned fitness is the lowest fitness of any candidate evaluated
\* during the run, and it is the objective value of the returned parameters.
C4_ResultIsBestObserved ==
  Done => /\ bestFitness = lowestSeen
          /\ bestFitness = Evaluate(objective, bestParams)

\* A run of several generations that returned a result found after the first one.
C4_Witness ==
  /\ Done /\ gen >= 2
  /\ Len(history) = HistoryWindow + 1
  /\ history[Len(history)] < history[Len(history) - 1]
  /\ bestFitness = history[Len(history)]

\* C5 as stated: with tolerance >= 0 and an initial candidate at or below
\* tolerance, the run ends at generation 1, not before and not after, with
\* the fitness of such a candidate.
C5_Original ==
  /\ [][(/\ pc = "run" /\ gen = 0
         /\ cfg.tolerance >= 0
         /\ \E i \in 1..Len(population) :
              Evaluate(objective, population[i]) <= cfg.tolerance)
        => (/\ pc' = "done" /\ gen' = 1
            /\ bestFitness' <= cfg.tolerance)]_vars
  /\ []((/\ InOptimize /\ gen = 0
         /\ cfg.tolerance >= 0
         /\ \E i \in 1..Len(population) :
              Evaluate(objective, population[i]) <= cfg.tolerance)
        => Running)

\* C5 amended: with maxGenerations >= 1, tolerance >= 0 and an initial
\* candidate at or below tolerance, the run is not over before its first
\* generation, the first generation ends it, and the value returned is the
\* fitness of such a candidate (the lowest of the initial population).
C5_InitialCandidateWithinTolerance ==
  /\ [][(/\ pc = "run" /\ gen = 0
         /\ cfg.tolerance >= 0
         /\ \E i \in 1..Len(population) :
              Evaluate(objective, population[i]) <= cfg.tolerance)
        => (/\ pc' = "done" /\ gen' = 1
            /\ bestFitness' <= cfg.tolerance
            /\ \E i \in 1..Len(population) :
                 bestFitness' = Evaluate(objective, population[i])
            /\ \A i \in 1..Len(population) :
                 bestFitness' <= Evaluate(objective, population[i]))]_vars
  /\ []((/\ InOptimize /\ gen = 0
         /\ cfg.maxGenerations >= 1
         /\ cfg.tolerance >= 0
         /\ \E i \in 1..Len(population) :
              Evaluate(objective, population[i]) <= cfg.tolerance)
        => Running)

\* The tolerance check ended a longer run at generation 1, the best candidate
\* being exactly at tolerance.
C5_Witness ==
  /\ Done /\ gen = 1 /\ reason = "tolerance"
  /\ cfg.maxGenerations > 1
  /\ bestFitness = cfg.tolerance

\* C6: a check whose threshold is negative never ends a run; with both
\* thresholds negative a run ends only at maxGenerations.
C6_NegativeThresholdDisablesCheck ==
  /\ (InOptimize /\ cfg.tolerance < 0) => reason # "tolerance"
  /\ (InOptimize /\ cfg.objectiveChange < 0) => reason # "objectiveChange"
  /\ (Done /\ cfg.tolerance < 0 /\ cfg.objectiveChange < 0) =>
       (gen = cfg.maxGenerations /\ reason = "maxGenerations")

\* A run goes on although its best fitness is at or below a negative tolerance.
C6_Witness ==
  /\ Running /\ gen >= 2
  /\ cfg.tolerance < 0 /\ cfg.objectiveChange < 0
  /\ bestFitness <= cfg.tolerance

C9_HugeObjectiveChange ==
  (InOptimize /\ cfg.objectiveChange = Huge /\ cfg.maxGenerations > HistoryWindow) =>
    /\ Running => gen <= HistoryWindow
    /\ Done => /\ gen <= HistoryWindow + 1
               /\ (reason # "tolerance" => gen = HistoryWindow + 1)

\* The objective-change check ended a run at the first generation past the
\* window although the best fitness had changed and more generations were allowed.
C9_Witness ==
  /\ Done /\ cfg.objectiveChange = Huge
  /\ reason = "objectiveChange"
  /\ gen = HistoryWindow + 1 /\ cfg.maxGenerations > HistoryWindow + 1
  /\ history[1] # history[Len(history)]

\* C10: every generation keeps the max(2, ceil(selectPercent * populationSize))
\* top-ranked candidates unmodified in the next population, and every other
\* slot holds a copy of one of them with noise of at most mutationSize.
C10_ParentsCarryOver ==
  [][(pc = "run" /\ gen' = gen + 1) =>
       \A ceil \in {(cfg.selectPercent * cfg.populationSize + ProbDen - 1) \div ProbDen} :
       \A n \in {IF ceil < 2 THEN 2 ELSE ceil} :
       \A ranked \in {Rank(objective, population)} :
           /\ n >= 2 /\ n <= Len(population')
           /\ \A k \in 1..n : population'[k] = ranked[k]
           /\ \A k \in (n + 1)..Len(population') :
                \E i \in 1..n : \A j \in 1..Len(population'[k]) :
                  Abs(population'[k][j] - ranked[i][j]) <= cfg.mutationSize]_vars

\* A generation whose candidates all tie on fitness selected ceil(0.6 * 4) = 3
\* parents and regenerated the last slot with a mutated copy.
C10_Witness ==
  /\ InOptimize /\ gen >= 1
  /\ objective = "constant"
  /\ cfg.selectPercent = 6 /\ cfg.populationSize = 4
  /\ \A i \in 1..3 : population[4] # population[i]

====
